---------------------------- MODULE Spec2Model ----------------------------
(***************************************************************************)
(* A model of the SNOL interpreter of SNOL_Task1.py: the tokenizer, the    *)
(* parser, the four task2_* executors over the variable store, and the     *)
(* read-eval loop SNOLInterpreter.run.                                     *)
(*                                                                         *)
(* Text is a sequence of one-character strings, so that the regular        *)
(* expressions, str.strip, str.split, " ".join, int(), float() and str()   *)
(* are computed character by character.  A number is a record              *)
(* [t, n, d]: t is "int" or "float" and n/d is its value (d = 1 for an     *)
(* int; n/d in lowest terms, d a power of two, for a float, which is then  *)
(* exactly a binary floating-point value).                                 *)
(***************************************************************************)
EXTENDS Integers, Sequences, FiniteSets, TLC

(***************************************************************************)
(* Bounds of the model.                                                    *)
(***************************************************************************)
\* Stored values lie in -MaxAbs .. MaxAbs.
MaxAbs == 8
\* Stored floats have at most MaxFracBits binary fraction digits.
MaxFracBits == 2

(***************************************************************************)
(* Characters.                                                             *)
(***************************************************************************)
Lower ==
    {"a","b","c","d","e","f","g","h","i","j","k","l","m",
     "n","o","p","q","r","s","t","u","v","w","x","y","z"}

Upper ==
    {"A","B","C","D","E","F","G","H","I","J","K","L","M",
     "N","O","P","Q","R","S","T","U","V","W","X","Y","Z"}

Letter == Lower \cup Upper

DigitChars == <<"0","1","2","3","4","5","6","7","8","9">>

Digit == {DigitChars[i] : i \in 1..Len(DigitChars)}

\* int() of one digit character
DigitVal(c) == (CHOOSE i \in 1..Len(DigitChars) : DigitChars[i] = c) - 1

AlNum == Letter \cup Digit

\* \w of the regular expressions (what \b looks at)
WordChar == AlNum \cup {"_"}

\* \s
Space == {" ", "\t"}

OperatorChar == {"+", "-", "*", "/", "%"}

(***************************************************************************)
(* Helpers on text.                                                        *)
(***************************************************************************)
At(s, i) == IF i >= 1 /\ i <= Len(s) THEN s[i] ELSE ""

\* s[i .. i + Len(w) - 1] = w
StartsAt(s, i, w) ==
    /\ i >= 1
    /\ i + Len(w) - 1 <= Len(s)
    /\ \A k \in 1..Len(w) : s[i + k - 1] = w[k]

\* w in s  (substring test of Python's `in` on str)
Contains(s, w) == \E i \in 1..(Len(s) + 1) : StartsAt(s, i, w)

\* the end (exclusive) of the longest run of characters of set S from i
RECURSIVE RunEnd(_, _, _)
RunEnd(s, i, S) == IF At(s, i) \in S THEN RunEnd(s, i + 1, S) ELSE i

\* str.strip()
RECURSIVE LStrip(_)
LStrip(s) == IF s # <<>> /\ Head(s) \in Space THEN LStrip(Tail(s)) ELSE s

RECURSIVE RStrip(_)
RStrip(s) ==
    IF s # <<>> /\ s[Len(s)] \in Space THEN RStrip(SubSeq(s, 1, Len(s) - 1)) ELSE s

Strip(s) == RStrip(LStrip(s))

\* " ".join(parts)
RECURSIVE Join(_)
Join(parts) ==
    IF parts = <<>> THEN <<>>
    ELSE IF Len(parts) = 1 THEN parts[1]
    ELSE parts[1] \o <<" ">> \o Join(Tail(parts))

\* str.split(): the maximal runs of non-blank characters
RECURSIVE WordEnd(_, _)
WordEnd(s, i) == IF i <= Len(s) /\ s[i] \notin Space THEN WordEnd(s, i + 1) ELSE i

RECURSIVE SplitFrom(_, _)
SplitFrom(s, i) ==
    IF i > Len(s) THEN <<>>
    ELSE IF s[i] \in Space THEN SplitFrom(s, i + 1)
    ELSE <<SubSeq(s, i, WordEnd(s, i) - 1)>> \o SplitFrom(s, WordEnd(s, i))

Split(s) == SplitFrom(s, 1)

(***************************************************************************)
(* The regular expressions of the program.                                 *)
(***************************************************************************)
KwBEG == <<"B","E","G">>
KwPRINT == <<"P","R","I","N","T">>
KwEXIT == <<"E","X","I","T","!">>

Keywords == {KwBEG, KwPRINT, KwEXIT}

\* \b at the gap before position p
WordBoundary(s, p) == (At(s, p - 1) \in WordChar) # (At(s, p) \in WordChar)

\* KEYWORD at i: the matched length, 0 for no match
MatchKeyword(s, i) ==
    IF StartsAt(s, i, KwBEG) /\ WordBoundary(s, i) /\ WordBoundary(s, i + 3)
    THEN 3
    ELSE IF StartsAt(s, i, KwPRINT) /\ WordBoundary(s, i) /\ WordBoundary(s, i + 5)
    THEN 5
    ELSE IF StartsAt(s, i, KwEXIT) THEN 5
    ELSE 0

\* IDENT at i: [a-zA-Z][a-zA-Z0-9]*
MatchIdent(s, i) ==
    IF At(s, i) \in Letter THEN RunEnd(s, i + 1, AlNum) - i ELSE 0

\* NUMBER at i: -?\d+(\.\d+)?
MatchNumber(s, i) ==
    LET j == IF At(s, i) = "-" THEN i + 1 ELSE i
        e == RunEnd(s, j, Digit)
        f == RunEnd(s, e + 1, Digit)
    IN  IF e = j THEN 0
        ELSE IF At(s, e) = "." /\ f > e + 1 THEN f - i
        ELSE e - i

\* re.fullmatch(r"[a-zA-Z][a-zA-Z0-9]*", s)
FullMatchIdent(s) == s # <<>> /\ MatchIdent(s, 1) = Len(s)

\* re.fullmatch(r"-?\d+", s)
FullMatchInt(s) ==
    LET j == IF At(s, 1) = "-" THEN 2 ELSE 1
    IN  j <= Len(s) /\ RunEnd(s, j, Digit) = Len(s) + 1

\* re.fullmatch(r"-?\d+\.\d+", s)
FullMatchFloat(s) ==
    LET j == IF At(s, 1) = "-" THEN 2 ELSE 1
        e == RunEnd(s, j, Digit)
    IN  /\ e > j
        /\ At(s, e) = "."
        /\ e + 1 <= Len(s)
        /\ RunEnd(s, e + 1, Digit) = Len(s) + 1

\* re.fullmatch(r"-?\d+(\.\d+)?", s)
FullMatchNumber(s) == FullMatchInt(s) \/ FullMatchFloat(s)

(***************************************************************************)
(* Exceptions and commands.                                                *)
(***************************************************************************)
\* an exception in flight: its class and str(e)
Raise(cls, arg) == [cls |-> cls, arg |-> arg]

NoExc == Raise("none", <<>>)

\* the SNOLException classes, in the order of the except clauses of run
SNOLClasses == {"SNOLInvalidVariableError", "SNOLSyntaxError", "SNOLUnknownCommandError"}

Cmd(kind, var, operand, expr) ==
    [kind |-> kind, var |-> var, operand |-> operand, expr |-> expr]

NoCmd == Cmd("none", <<>>, <<>>, <<>>)

\* the outcome of a call that returns a command or raises
Returned(cmd) == [exc |-> NoExc, cmd |-> cmd]

Raised(cls, arg) == [exc |-> Raise(cls, arg), cmd |-> NoCmd]

(***************************************************************************)
(* tokenize                                                                *)
(***************************************************************************)
Token(kind, value) == [kind |-> kind, value |-> value]

\* the alternative of TOKEN_REGEX that matches at i, and its length
TokenAt(s, i) ==
    IF MatchKeyword(s, i) > 0 THEN [kind |-> "KEYWORD", len |-> MatchKeyword(s, i)]
    ELSE IF MatchIdent(s, i) > 0 THEN [kind |-> "IDENT", len |-> MatchIdent(s, i)]
    ELSE IF MatchNumber(s, i) > 0 THEN [kind |-> "NUMBER", len |-> MatchNumber(s, i)]
    ELSE IF s[i] \in OperatorChar THEN [kind |-> "OPERATOR", len |-> 1]
    ELSE IF s[i] = "=" THEN [kind |-> "ASSIGN", len |-> 1]
    ELSE IF s[i] \in Space THEN [kind |-> "WHITESPACE", len |-> RunEnd(s, i, Space) - i]
    ELSE [kind |-> "UNKNOWN", len |-> 1]

\* the loop over TOKEN_REGEX.finditer(line)
RECURSIVE TokenizeFrom(_, _, _)
TokenizeFrom(s, i, tokens) ==
    IF i > Len(s) THEN [exc |-> NoExc, tokens |-> tokens]
    ELSE LET m == TokenAt(s, i)
         IN  IF m.kind = "WHITESPACE" THEN TokenizeFrom(s, i + m.len, tokens)
             ELSE IF m.kind = "UNKNOWN"
             THEN [exc |-> Raise("SNOLUnknownCommandError", <<>>), tokens |-> <<>>]
             ELSE TokenizeFrom(s, i + m.len,
                      Append(tokens, Token(m.kind, SubSeq(s, i, i + m.len - 1))))

\* a plausible slip: an unrecognized character is skipped like whitespace
RECURSIVE TokenizeSkippingFrom(_, _, _)
TokenizeSkippingFrom(s, i, tokens) ==
    IF i > Len(s) THEN [exc |-> NoExc, tokens |-> tokens]
    ELSE LET m == TokenAt(s, i)
         IN  IF m.kind \in {"WHITESPACE", "UNKNOWN"}
             THEN TokenizeSkippingFrom(s, i + m.len, tokens)
             ELSE TokenizeSkippingFrom(s, i + m.len,
                      Append(tokens, Token(m.kind, SubSeq(s, i, i + m.len - 1))))

TokenizeSkippingUnknown(line) == TokenizeSkippingFrom(line, 1, <<>>)

tokenize(line) == TokenizeFrom(line, 1, <<>>)

(***************************************************************************)
(* The command constructors and parse                                      *)
(***************************************************************************)
BegCommand(var) ==
    IF ~FullMatchIdent(var) THEN Raised("SNOLInvalidVariableError", var)
    ELSE Returned(Cmd("Beg", var, <<>>, <<>>))

PrintCommand(operand) == Returned(Cmd("Print", <<>>, operand, <<>>))

AssignCommand(var, expr) ==
    IF ~FullMatchIdent(var) THEN Raised("SNOLInvalidVariableError", var)
    ELSE Returned(Cmd("Assign", var, <<>>, expr))

ExprCommand(expr) == Returned(Cmd("Expr", <<>>, <<>>, expr))

ExitCommand == Returned(Cmd("Exit", <<>>, <<>>, <<>>))

Values(tokens) == [i \in 1..Len(tokens) |-> tokens[i].value]

\* the body of the try block of the assignment branch
ParseAssignBody(tokens) ==
    LET idx == CHOOSE i \in 1..Len(tokens) :
                   /\ tokens[i].value = <<"=">>
                   /\ \A k \in 1..(i - 1) : tokens[k].value # <<"=">>
        var == SubSeq(tokens, 1, idx - 1)
        expr == SubSeq(tokens, idx + 1, Len(tokens))
    IN  IF Len(var) # 1 \/ var[1].kind # "IDENT"
        THEN Raised("SNOLInvalidVariableError",
                    IF var # <<>> THEN var[1].value ELSE <<"?">>)
        ELSE AssignCommand(var[1].value, Join(Values(expr)))

\* try: ... except Exception: raise SNOLSyntaxError()
ParseAssign(tokens) ==
    LET r == ParseAssignBody(tokens)
    IN  IF r.exc.cls # "none" THEN Raised("SNOLSyntaxError", <<>>) ELSE r

\* a plausible slip: EXIT! exits whatever follows it
ParseExitIgnoringRest(tokens) == ExitCommand

\* the EXIT! branch
ParseExit(tokens) ==
    IF Len(tokens) # 1
    THEN Raised("SNOLSyntaxError", <<"EXIT! must be used alone">>)
    ELSE ExitCommand

\* the BEG branch
ParseBeg(tokens) ==
    IF Len(tokens) # 2 \/ tokens[2].kind # "IDENT"
    THEN Raised("SNOLSyntaxError", <<>>)
    ELSE BegCommand(tokens[2].value)

\* the PRINT branch
ParsePrint(tokens) ==
    IF Len(tokens) # 2
    THEN Raised("SNOLSyntaxError", <<>>)
    ELSE PrintCommand(tokens[2].value)

parse(tokens) ==
    IF tokens = <<>> THEN Raised("SNOLUnknownCommandError", <<>>)
    ELSE IF tokens[1].kind = "KEYWORD" /\ tokens[1].value = KwEXIT THEN ParseExit(tokens)
    ELSE IF tokens[1].kind = "KEYWORD" /\ tokens[1].value = KwBEG THEN ParseBeg(tokens)
    ELSE IF tokens[1].kind = "KEYWORD" /\ tokens[1].value = KwPRINT THEN ParsePrint(tokens)
    ELSE IF tokens[1].kind = "OPERATOR" THEN Raised("SNOLUnknownCommandError", <<>>)
    ELSE IF \E i \in 2..Len(tokens) : tokens[i].kind = "KEYWORD"
    THEN Raised("SNOLUnknownCommandError", <<>>)
    ELSE IF \E i \in 1..Len(tokens) : tokens[i].value = <<"=">>
    THEN ParseAssign(tokens)
    ELSE ExprCommand(Join(Values(tokens)))

\* SNOLInterpreter.has_multiple_keywords
has_multiple_keywords(line) ==
    Cardinality({k \in Keywords : Contains(line, k)}) > 1

(***************************************************************************)
(* Numbers: Python's int and float, int(), float() and str().              *)
(***************************************************************************)
IntV(n) == [t |-> "int", n |-> n, d |-> 1]

Abs(n) == IF n < 0 THEN -n ELSE n

RECURSIVE GCD(_, _)
GCD(a, b) == IF b = 0 THEN a ELSE GCD(b, a % b)

\* the float n/d (d # 0), in lowest terms with a positive denominator
FloatV(n, d) ==
    LET g == GCD(Abs(n), Abs(d))
        sgn == IF d < 0 THEN -1 ELSE 1
    IN  [t |-> "float", n |-> sgn * (n \div g), d |-> sgn * (d \div g)]

RECURSIVE Pow(_, _)
Pow(b, e) == IF e = 0 THEN 1 ELSE b * Pow(b, e - 1)

RECURSIVE Log2(_)
Log2(d) == IF d <= 1 THEN 0 ELSE 1 + Log2(d \div 2)

IsPow2(d) == d >= 1 /\ Pow(2, Log2(d)) = d

\* a value the model represents without rounding
Exact(v) == v.t = "int" \/ IsPow2(v.d)

\* the value of a run of digits
RECURSIVE DigitsVal(_)
DigitsVal(s) ==
    IF s = <<>> THEN 0
    ELSE 10 * DigitsVal(SubSeq(s, 1, Len(s) - 1)) + DigitVal(s[Len(s)])

\* int(s), for s matching -?\d+
PyInt(s) ==
    IF s[1] = "-" THEN IntV(-DigitsVal(Tail(s))) ELSE IntV(DigitsVal(s))

\* float(s), for s matching -?\d+\.\d+
PyFloat(s) ==
    LET neg == s[1] = "-"
        u == IF neg THEN Tail(s) ELSE s
        dot == CHOOSE i \in 1..Len(u) : u[i] = "."
        frac == SubSeq(u, dot + 1, Len(u))
        n == DigitsVal(SubSeq(u, 1, dot - 1)) * Pow(10, Len(frac)) + DigitsVal(frac)
    IN  FloatV(IF neg THEN -n ELSE n, Pow(10, Len(frac)))

\* str(n) for n >= 0
RECURSIVE NatStr(_)
NatStr(n) ==
    IF n < 10 THEN <<DigitChars[n + 1]>>
    ELSE NatStr(n \div 10) \o <<DigitChars[(n % 10) + 1]>>

\* the digits of n, left-padded with zeros to width w
RECURSIVE Padded(_, _)
Padded(n, w) ==
    IF w = 0 THEN <<>> ELSE Padded(n \div 10, w - 1) \o <<DigitChars[(n % 10) + 1]>>

\* str(value) that drops the fraction of a float
StrOfWhole(v) == (IF v.n < 0 THEN <<"-">> ELSE <<>>) \o NatStr(Abs(v.n) \div v.d)

\* str(value): repr of an int, and the shortest repr of an exact float, which
\* is its finite decimal expansion
Str(v) ==
    LET sign == IF v.n < 0 THEN <<"-">> ELSE <<>>
        a == Abs(v.n)
        m == Log2(v.d)
    IN  IF v.t = "int" THEN sign \o NatStr(a)
        ELSE sign \o NatStr(a \div v.d) \o <<".">> \o
             (IF v.d = 1 THEN <<"0">> ELSE Padded((a % v.d) * Pow(5, m), m))

(***************************************************************************)
(* Python's arithmetic and eval() on the text the executors build.         *)
(***************************************************************************)
\* floor(a / b), b # 0
FloorDiv(a, b) ==
    LET p == IF b < 0 THEN -a ELSE a
        q == Abs(b)
    IN  IF p >= 0 THEN p \div q ELSE -((-p + q - 1) \div q)

\* a binary operator on two numbers: [zde, v]
BinOp(op, a, b) ==
    LET ints == a.t = "int" /\ b.t = "int"
        den == a.d * b.d
        x == a.n * b.d
        y == b.n * a.d
        ok(v) == [zde |-> FALSE, v |-> v]
        zero == [zde |-> TRUE, v |-> IntV(0)]
    IN  CASE op = "+" -> ok(IF ints THEN IntV(a.n + b.n) ELSE FloatV(x + y, den))
          [] op = "-" -> ok(IF ints THEN IntV(a.n - b.n) ELSE FloatV(x - y, den))
          [] op = "*" -> ok(IF ints THEN IntV(a.n * b.n) ELSE FloatV(a.n * b.n, den))
          [] op = "/" -> IF b.n = 0 THEN zero ELSE ok(FloatV(x, y))
          [] op = "%" ->
               IF b.n = 0 THEN zero
               ELSE IF ints THEN ok(IntV(a.n - b.n * FloorDiv(a.n, b.n)))
               ELSE ok(FloatV(x - y * FloorDiv(x, y), den))

\* a token of Python's lexer: a number, an operator, or a character no
\* expression may hold
PyNum(v) == [k |-> "num", op |-> "", v |-> v]
PyOp(c) == [k |-> "op", op |-> c, v |-> IntV(0)]
PyBad == [k |-> "bad", op |-> "", v |-> IntV(0)]

\* a decimal integer literal may not start with 0 unless it is all zeros
PyIntLiteralOk(s) == Len(s) = 1 \/ s[1] # "0" \/ \A i \in 1..Len(s) : s[i] = "0"

RECURSIVE PyLexFrom(_, _)
PyLexFrom(s, i) ==
    IF i > Len(s) THEN <<>>
    ELSE IF s[i] \in Space THEN PyLexFrom(s, i + 1)
    ELSE IF s[i] \in Digit
    THEN LET len == MatchNumber(s, i)
             lit == SubSeq(s, i, i + len - 1)
         IN  IF FullMatchFloat(lit) THEN <<PyNum(PyFloat(lit))>> \o PyLexFrom(s, i + len)
             ELSE IF PyIntLiteralOk(lit) THEN <<PyNum(PyInt(lit))>> \o PyLexFrom(s, i + len)
             ELSE <<PyBad>>
    ELSE IF s[i] \in OperatorChar THEN <<PyOp(s[i])>> \o PyLexFrom(s, i + 1)
    ELSE <<PyBad>>

PyLex(s) == PyLexFrom(s, 1)

\* a parse in progress: syn (no syntax error so far), zde (a division by zero
\* happened), exact (no float was rounded), the value and the next position
PyOk(v, i) == [syn |-> TRUE, zde |-> FALSE, exact |-> Exact(v), v |-> v, i |-> i]
PyFail(i) == [syn |-> FALSE, zde |-> FALSE, exact |-> TRUE, v |-> IntV(0), i |-> i]

PyCombine(op, a, b) ==
    LET r == BinOp(op, a.v, b.v)
    IN  [syn |-> TRUE, zde |-> a.zde \/ b.zde \/ r.zde,
         exact |-> a.exact /\ b.exact /\ Exact(r.v), v |-> r.v, i |-> b.i]

PyNeg(v) == IF v.t = "int" THEN IntV(-v.n) ELSE FloatV(-v.n, v.d)

\* factor: ('+' | '-') factor | NUMBER
RECURSIVE PyFactor(_, _)
PyFactor(ts, i) ==
    IF i > Len(ts) THEN PyFail(i)
    ELSE IF ts[i].k = "op" /\ ts[i].op \in {"+", "-"}
    THEN LET r == PyFactor(ts, i + 1)
         IN  IF r.syn /\ ts[i].op = "-" THEN [r EXCEPT !.v = PyNeg(r.v)] ELSE r
    ELSE IF ts[i].k = "num" THEN PyOk(ts[i].v, i + 1)
    ELSE PyFail(i)

\* term: factor (('*' | '/' | '%') factor)*
RECURSIVE PyTermRest(_, _)
PyTermRest(ts, acc) ==
    IF acc.syn /\ acc.i <= Len(ts) /\ ts[acc.i].k = "op" /\ ts[acc.i].op \in {"*", "/", "%"}
    THEN LET f == PyFactor(ts, acc.i + 1)
         IN  IF f.syn THEN PyTermRest(ts, PyCombine(ts[acc.i].op, acc, f)) ELSE f
    ELSE acc

PyTerm(ts, i) == PyTermRest(ts, PyFactor(ts, i))

\* arith_expr: term (('+' | '-') term)*
RECURSIVE PyArithRest(_, _)
PyArithRest(ts, acc) ==
    IF acc.syn /\ acc.i <= Len(ts) /\ ts[acc.i].k = "op" /\ ts[acc.i].op \in {"+", "-"}
    THEN LET t == PyTerm(ts, acc.i + 1)
         IN  IF t.syn THEN PyArithRest(ts, PyCombine(ts[acc.i].op, acc, t)) ELSE t
    ELSE acc

PyArith(ts, i) == PyArithRest(ts, PyTerm(ts, i))

\* eval(final_expr): [exc, v, exact]
PyEval(s) ==
    LET ts == PyLex(s)
        r == PyArith(ts, 1)
    IN  IF (\E k \in 1..Len(ts) : ts[k].k = "bad") \/ ~r.syn \/ r.i # Len(ts) + 1
        THEN [exc |-> "SyntaxError", v |-> IntV(0), exact |-> TRUE]
        ELSE IF r.zde THEN [exc |-> "ZeroDivisionError", v |-> IntV(0), exact |-> TRUE]
        ELSE [exc |-> "none", v |-> r.v, exact |-> r.exact]

(***************************************************************************)
(* What the program prints.  A printed line is a sequence of fragments.    *)
(***************************************************************************)
Banner ==
    <<"The SNOL environment is now active, you may proceed with giving your commands.">>

CommandPrompt == <<"Command: ">>

InputPrompt == <<"Input: ">>

BegPrompt(var) == <<"SNOL> ", "Please enter value for [">> \o var \o <<"]">>

PrintedVariable(operand, value) == <<"SNOL> ", "[">> \o operand \o <<"] = ">> \o Str(value)

PrintedLiteral(operand) == <<"SNOL> ", "[literal] = [">> \o operand \o <<"]">>

NotDefined(token) == <<"SNOL> ", "Error! [">> \o token \o <<"] is not defined!">>

MixedTypes ==
    <<"SNOL> ", "Error! Operands must be of the same type in an\narithmetic operation!">>

Terminated == <<"Interpreter is now terminated...">>

\* SNOLInterpreter.print_error
print_error(msg) == <<"SNOL> ">> \o msg

OnlyOneCommand == print_error(<<"Only one command per line is allowed.">>)

UnknownCommand ==
    print_error(<<"Unknown command! Does not match any valid command of the language.">>)

UnknownWord(e) == print_error(<<"Unknown word [">> \o e \o <<"]">>)

GenericError(e) == print_error(<<"Error! ">> \o e)

\* a plausible slip: the last clause prints without print_error
HandlerPlainPrint(e) ==
    IF e.cls = "SNOLInvalidVariableError" THEN UnknownWord(e.arg)
    ELSE IF e.cls = "SNOLSyntaxError" THEN UnknownCommand
    ELSE IF e.cls = "SNOLUnknownCommandError" THEN UnknownCommand
    ELSE <<"Error! ">> \o e.arg

\* the except clauses of run: the line printed for a caught exception
Handler(e) ==
    IF e.cls = "SNOLInvalidVariableError" THEN UnknownWord(e.arg)
    ELSE IF e.cls = "SNOLSyntaxError" THEN UnknownCommand
    ELSE IF e.cls = "SNOLUnknownCommandError" THEN UnknownCommand
    ELSE GenericError(e.arg)

EOFError == Raise("EOFError", <<"EOF when reading a line">>)

(***************************************************************************)
(* The task2_* executors.  Each takes the store and yields the exception   *)
(* it raises (NoExc for a return), the store it leaves, the lines it       *)
(* prints, and whether its arithmetic was exact.                           *)
(***************************************************************************)
Done(e, store, printed, exact) ==
    [exc |-> e, store |-> store, out |-> printed, exact |-> exact]

\* variable_store[var] = value
Put(store, var, value) ==
    [k \in DOMAIN store \cup {var} |-> IF k = var THEN value ELSE store[k]]

\* a plausible slip: the variable is bound before the input is validated
BegStoringFirst(store, var, value) ==
    IF FullMatchInt(value) THEN Done(NoExc, Put(store, var, PyInt(value)), <<>>, TRUE)
    ELSE IF FullMatchFloat(value)
    THEN Done(NoExc, Put(store, var, PyFloat(value)), <<>>, Exact(PyFloat(value)))
    ELSE Done(Raise("SNOLSyntaxError", <<>>), Put(store, var, IntV(0)), <<>>, TRUE)

\* a plausible slip: the patterns lack the optional sign, \d+ and \d+\.\d+
BegUnsignedOnly(store, var, value) ==
    IF value # <<>> /\ value[1] = "-"
    THEN Done(Raise("SNOLSyntaxError", <<>>), store, <<>>, TRUE)
    ELSE IF FullMatchInt(value) THEN Done(NoExc, Put(store, var, PyInt(value)), <<>>, TRUE)
    ELSE IF FullMatchFloat(value)
    THEN Done(NoExc, Put(store, var, PyFloat(value)), <<>>, Exact(PyFloat(value)))
    ELSE Done(Raise("SNOLSyntaxError", <<>>), store, <<>>, TRUE)

task2_beg_variable(store, var, value) ==
    IF FullMatchInt(value) THEN Done(NoExc, Put(store, var, PyInt(value)), <<>>, TRUE)
    ELSE IF FullMatchFloat(value)
    THEN Done(NoExc, Put(store, var, PyFloat(value)), <<>>, Exact(PyFloat(value)))
    ELSE Done(Raise("SNOLSyntaxError", <<>>), store, <<>>, TRUE)

task2_print_variable(store, operand) ==
    IF operand \in DOMAIN store
    THEN Done(NoExc, store, <<PrintedVariable(operand, store[operand])>>, TRUE)
    ELSE IF FullMatchNumber(operand)
    THEN Done(NoExc, store, <<PrintedLiteral(operand)>>, TRUE)
    ELSE Done(Raise("SNOLSyntaxError", <<>>), store, <<>>, TRUE)

\* the identifiers among the tokens that the store does not hold
Undefined(store, tokens) ==
    {i \in 1..Len(tokens) : FullMatchIdent(tokens[i]) /\ tokens[i] \notin DOMAIN store}

\* evaluated_tokens: identifiers replaced by str() of their values
Substituted(store, tokens) ==
    [i \in 1..Len(tokens) |->
        IF FullMatchIdent(tokens[i]) THEN Str(store[tokens[i]]) ELSE tokens[i]]

task2_assign_variable(store, var, expr) ==
    LET tokens == Split(expr)
        r == PyEval(Join(Substituted(store, tokens)))
    IN  IF Undefined(store, tokens) # {} \/ r.exc # "none"
        THEN Done(Raise("SNOLSyntaxError", <<>>), store, <<>>, TRUE)
        ELSE Done(NoExc, Put(store, var, r.v), <<>>, r.exact)

\* the types the loop of task2_eval_expression collects
Types(store, tokens) ==
    {store[tokens[i]].t : i \in {k \in 1..Len(tokens) : FullMatchIdent(tokens[k])}}
    \cup {"float" : i \in {k \in 1..Len(tokens) :
                             ~FullMatchIdent(tokens[k]) /\ FullMatchFloat(tokens[k])}}
    \cup {"int" : i \in {k \in 1..Len(tokens) :
                           ~FullMatchIdent(tokens[k]) /\ FullMatchInt(tokens[k])}}

\* a plausible slip: the check for mixed int and float is left out
EvalWithoutTypeCheck(store, expr) ==
    LET tokens == Split(expr)
        undef == Undefined(store, tokens)
        first == CHOOSE i \in undef : \A k \in undef : i <= k
        r == PyEval(Join(Substituted(store, tokens)))
    IN  IF undef # {} THEN Done(NoExc, store, <<NotDefined(tokens[first])>>, TRUE)
        ELSE IF r.exc # "none" THEN Done(Raise("SNOLSyntaxError", <<>>), store, <<>>, TRUE)
        ELSE Done(NoExc, store, <<>>, r.exact)

task2_eval_expression(store, expr) ==
    LET tokens == Split(expr)
        undef == Undefined(store, tokens)
        first == CHOOSE i \in undef : \A k \in undef : i <= k
        r == PyEval(Join(Substituted(store, tokens)))
    IN  IF undef # {} THEN Done(NoExc, store, <<NotDefined(tokens[first])>>, TRUE)
        ELSE IF {"int", "float"} \subseteq Types(store, tokens)
        THEN Done(NoExc, store, <<MixedTypes>>, TRUE)
        ELSE IF r.exc # "none" THEN Done(Raise("SNOLSyntaxError", <<>>), store, <<>>, TRUE)
        ELSE Done(NoExc, store, <<>>, r.exact)

\* a value the bounds of the model admit in the store; the sign of a float
\* zero is not modelled, so no float zero is stored
InModel(v) ==
    /\ Exact(v)
    /\ v.d <= Pow(2, MaxFracBits)
    /\ Abs(v.n) <= MaxAbs * v.d
    /\ v.t = "float" => v.n # 0

(***************************************************************************)
(* The inputs of the model.                                                *)
(***************************************************************************)
\* the lines typed at the Command: prompt under Spec: arithmetic, and one line
\* or more for each way an iteration can end
Lines ==
    { <<>>,
      <<"B","E","G"," ","x"," ","P","R","I","N","T"," ","y">>,
      <<"x"," ","$">>,
      <<"B","E","G"," ","5">>,
      <<"+"," ","x">>,
      <<"5"," ","="," ","3">>,
      <<"E","X","I","T","!">>,
      <<"B","E","G"," ","x">>,
      <<"P","R","I","N","T"," ","x">>,
      <<"P","R","I","N","T"," ","y">>,
      <<"P","R","I","N","T"," ","z">>,
      <<"P","R","I","N","T"," ","w">>,
      <<"P","R","I","N","T"," ","4","2">>,
      <<"y"," ","="," ","2",".","5">>,
      <<"z"," ","="," ","x"," ","+"," ","y">>,
      <<"z"," ","="," ","x">>,
      <<"z"," ","="," ","4"," ","/"," ","2">>,
      <<"z"," ","="," ","7"," ","/"," ","2">>,
      <<"z"," ","="," ","7"," ","%"," ","3">>,
      <<"z"," ","="," ","-","7"," ","%"," ","3">>,
      <<"z"," ","="," ","x"," ","*"," ","y">>,
      <<"z"," ","="," ","x"," ","-"," ","y">>,
      <<"z"," ","="," ","x"," ","%"," ","y">>,
      <<"z"," ","="," ","x"," ","/"," ","y">>,
      <<"z"," ","="," ","x"," ","/"," ","0">>,
      <<"z"," ","="," ","x"," ","%"," ","0">>,
      <<"z"," ","="," ","w">>,
      <<"z"," ","="," ","0","5">>,
      <<"z"," ","="," ","0","0">>,
      <<"z"," ","="," ","x"," ","+">>,
      <<"z"," ","=">>,
      <<"z"," ","="," ","="," ","3">>,
      <<"z"," ","="," ","x"," ","="," ","3">>,
      <<"z","=","3","-","1">>,
      <<"z"," ","="," ","-"," ","x">>,
      <<"z"," ","="," ","z"," ","*"," ","2">>,
      <<"z"," ","="," ","z"," ","/"," ","2">>,
      <<"z"," ","="," ","2"," ","+"," ","3"," ","*"," ","2">>,
      <<"z"," ","="," ","1"," ","/"," ","3">>,
      <<"z"," ","="," ","5"," ","3">>,
      <<"x"," ","+"," ","y">>,
      <<"x">>,
      <<"w">>,
      <<"5">>,
      <<"-","1">>,
      <<"3",".","0"," ","+"," ","1">>,
      <<"x"," ","/"," ","0">>,
      <<"x"," ","+">>,
      <<"x"," ","y">>,
      <<"3"," ","-","1">>,
      <<"x"," ","*"," ","2">>,
      <<"w"," ","+"," ","y">>,
      <<"1"," ","/"," ","3"," ","*"," ","3">> }

\* the lines typed at the Input: prompt of BEG under Spec
Inputs ==
    { <<"5">>,
      <<"5",".","0">>,
      <<"-","2">>,
      <<"2",".","5","0">>,
      <<"x">> }

\* the lines typed under SpecSyntax: blank lines, rejections, EXIT!, BEG, PRINT
SyntaxLines ==
    { <<>>,
      <<" "," ">>,
      <<"\t">>,
      <<"B","E","G"," ","x"," ","P","R","I","N","T"," ","y">>,
      <<"E","X","I","T","!"," ","P","R","I","N","T"," ","x">>,
      <<"E","X","I","T","!"," ","B","E","G">>,
      <<"E","X","I","T","!"," ","B","E","G","x">>,
      <<"P","R","I","N","T"," ","E","X","I","T","!">>,
      <<"x"," ","$">>,
      <<"E","X","I","T","!"," ","$">>,
      <<"z"," ","="," ","1",".","2",".","3">>,
      <<"x","_"," ","="," ","5">>,
      <<"E","X","I","T","!","?">>,
      <<"B","E","G">>,
      <<"B","E","G"," ","5">>,
      <<"B","E","G"," ","x"," ","y">>,
      <<"B","E","G"," ","B","E","G">>,
      <<"B","E","G"," ","+">>,
      <<"P","R","I","N","T">>,
      <<"P","R","I","N","T"," ","x"," ","y">>,
      <<"E","X","I","T","!"," ","n","o","w">>,
      <<"E","X","I","T","!","n","o","w">>,
      <<"E","X","I","T","!"," ","E","X","I","T","!">>,
      <<"E","X","I","T","!"," ","5">>,
      <<"E","X","I","T","!"," ","="," ","5">>,
      <<"E","X","I","T","!"," ","x"," ","="," ","5">>,
      <<"E","X","I","T","!"," ","+">>,
      <<"+"," ","x">>,
      <<"-"," ","1">>,
      <<"x"," ","B","E","G">>,
      <<"z"," ","="," ","E","X","I","T","!">>,
      <<"5"," ","="," ","3">>,
      <<"="," ","3">>,
      <<"x"," ","y"," ","="," ","3">>,
      <<"x"," ","+"," ","1"," ","="," ","3">>,
      <<"-","1"," ","="," ","3">>,
      <<"5"," ","x"," ","="," ","3">>,
      <<"x"," ","="," ","3"," ","="," ","4">>,
      <<"="," ","="," ","3">>,
      <<"E","X","I","T","!">>,
      <<" ","E","X","I","T","!"," ">>,
      <<"B","E","G"," ","x">>,
      <<" "," ","B","E","G"," "," "," ","y","\t">>,
      <<"P","R","I","N","T"," ","x">>,
      <<"P","R","I","N","T"," ","y">>,
      <<"P","R","I","N","T"," ","w">>,
      <<"P","R","I","N","T"," ","4","2">>,
      <<"P","R","I","N","T"," ","0","5">>,
      <<"P","R","I","N","T"," ","-","2",".","5">>,
      <<"P","R","I","N","T"," ","+">>,
      <<"P","R","I","N","T"," ","=">>,
      <<"x"," ","="," ","5">>,
      <<"x"," ","="," ","w">>,
      <<"x"," ","="," ","1"," ","/"," ","0">>,
      <<"x">>,
      <<"5">>,
      <<"x"," ","/"," ","0">> }

\* the lines typed at the Input: prompt of BEG under SpecSyntax
SyntaxInputs ==
    { <<"5">>,
      <<"0","5">>,
      <<" ","5"," ">>,
      <<"-","2">>,
      <<"-","0">>,
      <<"5",".","0">>,
      <<"2",".","5","0">>,
      <<"-","2",".","5">>,
      <<>>,
      <<"5",".">>,
      <<".","5">>,
      <<"x">>,
      <<"+","5">>,
      <<"1",".","2",".","3">>,
      <<"-"," ","2">>,
      <<"-","-","2">>,
      <<"-">>,
      <<"5"," ","0">>,
      <<"0",".","1">>,
      <<"5",".","0",".">>,
      <<"2","e","3">>,
      <<"-",".","5">> }

\* the lines typed under SpecNames: variable targets on the identifier grammar
NameLines ==
    { <<>>,
      <<"x"," ","$">>,
      <<"E","X","I","T","!">>,
      <<"+"," ","1">>,
      <<"x"," ","+"," ","1">>,
      <<"x","1"," ","+"," ","w">>,
      <<"B","E","G"," ","P","R","I","N","T","E","R">>,
      <<"P","R","I","N","T","E","R"," ","="," ","5">>,
      <<"P","R","I","N","T"," ","P","R","I","N","T","E","R">>,
      <<"P","R","I","N","T","E","R">>,
      <<"B","E","G"," ","B","E","G","x">>,
      <<"B","E","G","x"," ","="," ","5">>,
      <<"P","R","I","N","T"," ","B","E","G","x">>,
      <<"B","E","G","x">>,
      <<"B","E","G","P","R","I","N","T"," ","="," ","5">>,
      <<"x","E","X","I","T","!"," ","="," ","5">>,
      <<"B","E","G"," ","E","X","I","T">>,
      <<"E","X","I","T"," ","="," ","5">>,
      <<"P","R","I","N","T"," ","E","X","I","T">>,
      <<"B","E","G"," ","x","1">>,
      <<"x","1"," ","="," ","5">>,
      <<"P","R","I","N","T"," ","x","1">>,
      <<"B","E","G"," ","B">>,
      <<"B"," ","="," ","5">>,
      <<"B","E","G"," ","1","x">>,
      <<"1","x"," ","="," ","5">>,
      <<"B","E","G"," ","x","_">>,
      <<"x","_"," ","="," ","5">>,
      <<"B","E","G"," ","x"," ","y">>,
      <<"x"," ","y"," ","="," ","5">>,
      <<"B","E","G"," ","5">>,
      <<"5"," ","="," ","5">>,
      <<"B","E","G"," ","-">>,
      <<"-"," ","="," ","5">>,
      <<"B","E","G">>,
      <<"="," ","5">>,
      <<"B","E","G"," ","B","E","G">>,
      <<"B","E","G"," ","="," ","5">>,
      <<"B","E","G"," ","P","R","I","N","T">>,
      <<"P","R","I","N","T"," ","="," ","5">>,
      <<"B","E","G"," ","E","X","I","T","!">>,
      <<"E","X","I","T","!"," ","="," ","5">>,
      <<"1","B","E","G"," ","="," ","5">>,
      <<"B","E","G"," ","1","B","E","G">>,
      <<"B","E","G","_"," ","="," ","5">>,
      <<"B","E","G"," ","P","R","I","N","T","_">>,
      <<"P","R","I","N","T","_"," ","="," ","5">>,
      <<"B","E","G"," ","$","B","E","G">>,
      <<"1","P","R","I","N","T"," ","="," ","5">> }

\* the lines typed at the Input: prompt of BEG under SpecNames
NameInputs ==
    { <<"5">>,
      <<"x">> }

(***************************************************************************)
(* The state: the variable store, the read-eval loop, and what the last    *)
(* iteration of the loop read, parsed, caught and printed.                 *)
(***************************************************************************)
VARIABLES
    variable_store,   \* the global dict
    running,          \* the loop of run has not been left
    eof,              \* standard input is exhausted: input() raises EOFError
    line,             \* the line the last iteration read at Command:
    inp,              \* what it read at Input:, if it asked
    cmd,              \* the command it parsed, NoCmd if it parsed none
    exc,              \* the exception it caught, NoExc if none
    out               \* the lines it printed

vars == <<variable_store, running, eof, line, inp, cmd, exc, out>>

NoInput == [asked |-> FALSE, text |-> <<>>]

Typed(text) == [asked |-> TRUE, text |-> text]

\* SNOLInterpreter.__init__ and the module's globals
Init ==
    /\ variable_store = [k \in {} |-> IntV(0)]
    /\ running = TRUE
    /\ eof = FALSE
    /\ line = <<>>
    /\ inp = NoInput
    /\ cmd = NoCmd
    /\ exc = NoExc
    /\ out = <<Banner>>

\* the part of an iteration that does not read the store: strip, the keyword
\* count, tokenize and parse
Front(l) ==
    LET s == Strip(l)
        t == tokenize(s)
        p == parse(t.tokens)
        at(path, e, c) == [line |-> l, path |-> path, exc |-> e, cmd |-> c]
    IN  IF s = <<>> THEN at("blank", NoExc, NoCmd)
        ELSE IF has_multiple_keywords(s) THEN at("multi", NoExc, NoCmd)
        ELSE IF t.exc.cls # "none" THEN at("tokenize", t.exc, NoCmd)
        ELSE IF p.exc.cls # "none" THEN at("parse", p.exc, NoCmd)
        ELSE at("cmd", NoExc, p.cmd)

\* the lines of each specification, each with its front
Fronts == {Front(l) : l \in Lines}

SyntaxFronts == {Front(l) : l \in SyntaxLines}

NameFronts == {Front(l) : l \in NameLines}

\* the end of an iteration whose command ran to r
Executed(l, i, c, r, printed) ==
    /\ r.exact
    /\ {k \in DOMAIN r.store : ~InModel(r.store[k])} = {}
    /\ variable_store' = r.store
    /\ line' = l
    /\ inp' = i
    /\ cmd' = c
    /\ exc' = r.exc
    /\ out' = <<CommandPrompt>> \o printed \o r.out \o
              (IF r.exc.cls = "none" THEN <<>> ELSE <<Handler(r.exc)>>)
    /\ UNCHANGED <<running, eof>>

\* the end of an iteration that ran no command
Skipped(l, e, printed) ==
    /\ line' = l
    /\ inp' = NoInput
    /\ cmd' = NoCmd
    /\ exc' = e
    /\ out' = <<CommandPrompt>> \o printed
    /\ UNCHANGED <<variable_store, running>>

\* input("Command: ") raises EOFError
ReadEOF ==
    /\ running
    /\ eof' = TRUE
    /\ Skipped(<<>>, EOFError, <<Handler(EOFError)>>)

\* if not line: continue
BlankLine(f) ==
    /\ running /\ ~eof
    /\ f.path = "blank"
    /\ Skipped(f.line, NoExc, <<>>)
    /\ UNCHANGED eof

\* if self.has_multiple_keywords(line): print_error(...); continue
RejectMultipleKeywords(f) ==
    /\ running /\ ~eof
    /\ f.path = "multi"
    /\ Skipped(f.line, NoExc, <<OnlyOneCommand>>)
    /\ UNCHANGED eof

\* tokenize raises
TokenizeError(f) ==
    /\ running /\ ~eof
    /\ f.path = "tokenize"
    /\ Skipped(f.line, f.exc, <<Handler(f.exc)>>)
    /\ UNCHANGED eof

\* parse raises
ParseError(f) ==
    /\ running /\ ~eof
    /\ f.path = "parse"
    /\ Skipped(f.line, f.exc, <<Handler(f.exc)>>)
    /\ UNCHANGED eof

\* ExitCommand.execute: sys.exit raises SystemExit, which no clause catches
ExecExit(f) ==
    /\ running /\ ~eof
    /\ f.path = "cmd" /\ f.cmd.kind = "Exit"
    /\ running' = FALSE
    /\ line' = f.line
    /\ inp' = NoInput
    /\ cmd' = f.cmd
    /\ exc' = NoExc
    /\ out' = <<CommandPrompt, Terminated>>
    /\ UNCHANGED <<variable_store, eof>>

\* BegCommand.execute, the user typing i
ExecBeg(f, i) ==
    /\ running /\ ~eof
    /\ f.path = "cmd" /\ f.cmd.kind = "Beg"
    /\ Executed(f.line, Typed(i), f.cmd,
                task2_beg_variable(variable_store, f.cmd.var, Strip(i)),
                <<BegPrompt(f.cmd.var), InputPrompt>>)

\* BegCommand.execute, input("Input: ") raising EOFError
ExecBegEOF(f) ==
    /\ running /\ ~eof
    /\ f.path = "cmd" /\ f.cmd.kind = "Beg"
    /\ eof' = TRUE
    /\ line' = f.line
    /\ inp' = NoInput
    /\ cmd' = f.cmd
    /\ exc' = EOFError
    /\ out' = <<CommandPrompt, BegPrompt(f.cmd.var), InputPrompt, Handler(EOFError)>>
    /\ UNCHANGED <<variable_store, running>>

\* PrintCommand.execute
ExecPrint(f) ==
    /\ running /\ ~eof
    /\ f.path = "cmd" /\ f.cmd.kind = "Print"
    /\ Executed(f.line, NoInput, f.cmd,
                task2_print_variable(variable_store, f.cmd.operand), <<>>)

\* AssignCommand.execute
ExecAssign(f) ==
    /\ running /\ ~eof
    /\ f.path = "cmd" /\ f.cmd.kind = "Assign"
    /\ Executed(f.line, NoInput, f.cmd,
                task2_assign_variable(variable_store, f.cmd.var, f.cmd.expr), <<>>)

\* ExprCommand.execute
ExecExpr(f) ==
    /\ running /\ ~eof
    /\ f.path = "cmd" /\ f.cmd.kind = "Expr"
    /\ Executed(f.line, NoInput, f.cmd,
                task2_eval_expression(variable_store, f.cmd.expr), <<>>)

\* one iteration of the loop of SNOLInterpreter.run
Next ==
    \/ ReadEOF
    \/ \E f \in Fronts : BlankLine(f)
    \/ \E f \in Fronts : RejectMultipleKeywords(f)
    \/ \E f \in Fronts : TokenizeError(f)
    \/ \E f \in Fronts : ParseError(f)
    \/ \E f \in Fronts : ExecExit(f)
    \/ \E f \in Fronts, i \in Inputs : ExecBeg(f, i)
    \/ \E f \in Fronts : ExecBegEOF(f)
    \/ \E f \in Fronts : ExecPrint(f)
    \/ \E f \in Fronts : ExecAssign(f)
    \/ \E f \in Fronts : ExecExpr(f)

Spec == Init /\ [][Next]_vars

\* the same loop fed the lines on rejection, EXIT! and the inputs of BEG
NextSyntax ==
    \/ ReadEOF
    \/ \E f \in SyntaxFronts : BlankLine(f)
    \/ \E f \in SyntaxFronts : RejectMultipleKeywords(f)
    \/ \E f \in SyntaxFronts : TokenizeError(f)
    \/ \E f \in SyntaxFronts : ParseError(f)
    \/ \E f \in SyntaxFronts : ExecExit(f)
    \/ \E f \in SyntaxFronts, i \in SyntaxInputs : ExecBeg(f, i)
    \/ \E f \in SyntaxFronts : ExecBegEOF(f)
    \/ \E f \in SyntaxFronts : ExecPrint(f)
    \/ \E f \in SyntaxFronts : ExecAssign(f)
    \/ \E f \in SyntaxFronts : ExecExpr(f)

SpecSyntax == Init /\ [][NextSyntax]_vars

\* the same loop fed the lines on the identifier grammar
NextNames ==
    \/ ReadEOF
    \/ \E f \in NameFronts : BlankLine(f)
    \/ \E f \in NameFronts : RejectMultipleKeywords(f)
    \/ \E f \in NameFronts : TokenizeError(f)
    \/ \E f \in NameFronts : ParseError(f)
    \/ \E f \in NameFronts : ExecExit(f)
    \/ \E f \in NameFronts, i \in NameInputs : ExecBeg(f, i)
    \/ \E f \in NameFronts : ExecBegEOF(f)
    \/ \E f \in NameFronts : ExecPrint(f)
    \/ \E f \in NameFronts : ExecAssign(f)
    \/ \E f \in NameFronts : ExecExpr(f)

SpecNames == Init /\ [][NextNames]_vars

(***************************************************************************)
(* The claims.                                                             *)
(***************************************************************************)
\* the printed lines of o that carry the "SNOL> " prefix
SnolLines(o) == {i \in 1..Len(o) : o[i][1] = "SNOL> "}

\* the identifier grammar: one letter followed by letters and digits
IsIdentifier(s) ==
    /\ s # <<>>
    /\ s[1] \in Letter
    /\ \A i \in 2..Len(s) : s[i] \in Letter \cup Digit

IsDigits(s) == s # <<>> /\ \A i \in 1..Len(s) : s[i] \in Digit

DigitsDotDigits(s) ==
    \E p \in 1..Len(s) :
        /\ s[p] = "."
        /\ IsDigits(SubSeq(s, 1, p - 1))
        /\ IsDigits(SubSeq(s, p + 1, Len(s)))

Unsigned(s) == IF s # <<>> /\ s[1] = "-" THEN Tail(s) ELSE s

\* the text between the first and the last non-blank character
Trimmed(s) ==
    LET solid == {i \in 1..Len(s) : s[i] \notin Space}
        lo == CHOOSE i \in solid : \A k \in solid : i <= k
        hi == CHOOSE i \in solid : \A k \in solid : k <= i
    IN  IF solid = {} THEN <<>> ELSE SubSeq(s, lo, hi)

ValidNumber(s) == IsDigits(Unsigned(s)) \/ DigitsDotDigits(Unsigned(s))

\* C1: an exception raised while a line is tokenized, parsed or executed is
\* caught by the loop of run, which prints exactly one "SNOL> " line for it
\* (besides the prompt BEG printed before it read its input), last, and goes
\* on; the loop is left only by an executed Exit.
C1_ErrorsCaughtLoopContinues ==
    /\ exc.cls # "none" =>
         /\ running
         /\ out[Len(out)][1] = "SNOL> "
         /\ Cardinality({i \in SnolLines(out) :
                            cmd.kind # "Beg" \/ out[i] # BegPrompt(cmd.var)}) = 1
    /\ ~running => cmd.kind = "Exit" /\ exc.cls = "none"

\* C1's case: BEG prompted, the input was invalid, and the loop still runs
C1_Witness ==
    cmd.kind = "Beg" /\ inp.asked /\ exc.cls = "SNOLSyntaxError" /\ running

\* C2: the store changes only by a Beg or an Assign that raised nothing, and
\* then at most in the entry of the command's variable.
C2_StoreFrame ==
    [][variable_store' # variable_store =>
         /\ cmd'.kind \in {"Beg", "Assign"}
         /\ exc'.cls = "none"
         /\ DOMAIN variable_store' = DOMAIN variable_store \cup {cmd'.var}
         /\ \A k \in DOMAIN variable_store \ {cmd'.var} :
                variable_store'[k] = variable_store[k]]_vars

\* C2's case: an Assign failed over a store that holds variables
C2_Witness ==
    cmd.kind = "Assign" /\ exc.cls = "SNOLSyntaxError" /\ DOMAIN variable_store # {}

\* C3: every key of the store matches the identifier grammar and is none of
\* BEG, PRINT, EXIT!.
C3_KeysAreIdentifiers ==
    \A k \in DOMAIN variable_store : IsIdentifier(k) /\ k \notin Keywords

\* C3's case: the store holds names that contain or extend a keyword
C3_Witness ==
    {KwBEG \o <<"x">>, KwPRINT \o <<"E", "R">>, <<"E", "X", "I", "T">>}
        \subseteq DOMAIN variable_store

LineBegX == KwBEG \o <<" ", "x">>

LinePrintX == KwPRINT \o <<" ", "x">>

\* the value entered at the Input: prompt, as PRINT is to show it
Shown(text) ==
    CASE text = <<"5">> -> <<"5">>
      [] text = <<"5", ".", "0">> -> <<"5", ".", "0">>
      [] text = <<"-", "2">> -> <<"-", "2">>
      [] text = <<"2", ".", "5", "0">> -> <<"2", ".", "5">>

\* C4: when BEG x has just stored an integer or a float literal, whatever x
\* held before, a PRINT x that follows prints SNOL> [x] = <value>, the value
\* entered with its type kept, and prints nothing else.
C4_BegThenPrint ==
    [][(/\ Trimmed(line) = LineBegX /\ cmd.kind = "Beg" /\ exc.cls = "none"
        /\ inp.asked /\ ValidNumber(Trimmed(inp.text))
        /\ Trimmed(line') = LinePrintX)
       => /\ out' = <<CommandPrompt,
                      <<"SNOL> ", "[", "x", "] = ">> \o Shown(Trimmed(inp.text))>>
          /\ exc'.cls = "none"]_vars

\* C4's case: PRINT x has shown the float 5.0, which only BEG x can have stored
C4_Witness ==
    /\ Trimmed(line) = LinePrintX
    /\ out = <<CommandPrompt, <<"SNOL> ", "[", "x", "] = ", "5", ".", "0">>>>

LineXPlusY == <<"x", " ", "+", " ", "y">>

LineZIsXPlusY == <<"z", " ", "=", " ">> \o LineXPlusY

IntAndFloat(store) ==
    /\ {<<"x">>, <<"y">>} \subseteq DOMAIN store
    /\ store[<<"x">>].t = "int"
    /\ store[<<"y">>].t = "float"

\* C5: with x an int and y a float, the line x + y prints the mixed-type
\* diagnostic, raises nothing and leaves the store alone, while z = x + y
\* raises nothing and stores their sum, a float, under z.
C5_TypeCheckOnExprOnly ==
    [][IntAndFloat(variable_store) =>
         /\ Trimmed(line') = LineXPlusY =>
              /\ out' = <<CommandPrompt, MixedTypes>>
              /\ exc'.cls = "none"
              /\ variable_store' = variable_store
         /\ Trimmed(line') = LineZIsXPlusY =>
              /\ exc'.cls = "none"
              /\ out' = <<CommandPrompt>>
              /\ <<"z">> \in DOMAIN variable_store'
              /\ variable_store'[<<"z">>] =
                    FloatV(variable_store[<<"x">>].n * variable_store[<<"y">>].d
                             + variable_store[<<"y">>].n,
                           variable_store[<<"y">>].d)]_vars

\* C5's case: z = x + y has just run over an int x and a float y
C5_Witness ==
    /\ Trimmed(line) = LineZIsXPlusY
    /\ IntAndFloat(variable_store)
    /\ <<"z">> \in DOMAIN variable_store
    /\ variable_store[<<"z">>].t = "float"

\* the variable targets tried under SpecNames
NameTargets ==
    { <<"P","R","I","N","T","E","R">>,
      <<"B","E","G","x">>,
      <<"B","E","G","P","R","I","N","T">>,
      <<"E","X","I","T">>,
      <<"x","1">>,
      <<"B">>,
      <<"1","x">>,
      <<"x","_">>,
      <<"x"," ","y">>,
      <<"5">>,
      <<"-">>,
      <<"B","E","G">>,
      <<"P","R","I","N","T">>,
      <<"E","X","I","T","!">>,
      <<"1","B","E","G">>,
      <<"B","E","G","_">>,
      <<"P","R","I","N","T","_">>,
      <<"$","B","E","G">>,
      <<"1","P","R","I","N","T">>,
      <<>> }

\* C6: BEG t (given a valid number) and t = 5 bind t when t is an identifier
\* other than BEG, PRINT, EXIT!, and bind nothing when t is anything else.
C6_IdentifierTargets ==
    [][\A t \in NameTargets :
         LET beg == KwBEG \o <<" ">> \o t
             asg == t \o <<" ", "=", " ", "5">>
             typed == inp'.asked => ValidNumber(Trimmed(inp'.text))
         IN  IF IsIdentifier(t) /\ t \notin Keywords
             THEN (/\ line' \in {beg, asg} /\ typed /\ exc'.cls # "EOFError")
                  => t \in DOMAIN variable_store'
             ELSE line' \in {beg, asg} => variable_store' = variable_store]_vars

\* the tokens of a line that tokenizes and starts with the keyword EXIT!
ExitTokens(l) ==
    LET t == tokenize(Trimmed(l))
    IN  IF t.exc.cls = "none" /\ t.tokens # <<>> /\ t.tokens[1] = Token("KEYWORD", KwEXIT)
        THEN t.tokens ELSE <<>>

C8_Original ==
    [][(cmd'.kind = "Beg" /\ inp'.asked) =>
         IF IsDigits(inp'.text)
         THEN /\ exc'.cls = "none"
              /\ cmd'.var \in DOMAIN variable_store'
              /\ variable_store'[cmd'.var].t = "int"
         ELSE IF DigitsDotDigits(inp'.text)
         THEN /\ exc'.cls = "none"
              /\ cmd'.var \in DOMAIN variable_store'
              /\ variable_store'[cmd'.var].t = "float"
         ELSE /\ exc'.cls = "SNOLSyntaxError"
              /\ variable_store' = variable_store]_vars

\* C8, amended: BEG trims the input; an optional - and a run of digits is
\* stored as an int, an optional -, digits, a dot and digits as a float; any
\* other input raises the syntax error and stores nothing.
C8_BegInputShapes ==
    [][(cmd'.kind = "Beg" /\ inp'.asked) =>
         IF IsDigits(Unsigned(Trimmed(inp'.text)))
         THEN /\ exc'.cls = "none"
              /\ cmd'.var \in DOMAIN variable_store'
              /\ variable_store'[cmd'.var].t = "int"
         ELSE IF DigitsDotDigits(Unsigned(Trimmed(inp'.text)))
         THEN /\ exc'.cls = "none"
              /\ cmd'.var \in DOMAIN variable_store'
              /\ variable_store'[cmd'.var].t = "float"
         ELSE /\ exc'.cls = "SNOLSyntaxError"
              /\ variable_store' = variable_store]_vars

\* C8's case: BEG took -2 and stored the int -2
C8_Witness ==
    /\ cmd.kind = "Beg"
    /\ inp = Typed(<<"-", "2">>)
    /\ exc.cls = "none"
    /\ variable_store[cmd.var] = IntV(-2)

\* the line passed the checks before the assignment branch of parse, holds an
\* = token, and its tokens before the first = are not exactly one identifier
BadAssignTarget(l) ==
    LET t == tokenize(Trimmed(l))
        eqs == {i \in 1..Len(t.tokens) : t.tokens[i].kind = "ASSIGN"}
        first == CHOOSE i \in eqs : \A k \in eqs : i <= k
    IN  /\ Trimmed(l) # <<>>
        /\ ~has_multiple_keywords(Trimmed(l))
        /\ t.exc.cls = "none"
        /\ t.tokens # <<>>
        /\ t.tokens[1].kind \notin {"KEYWORD", "OPERATOR"}
        /\ \A i \in 1..Len(t.tokens) : t.tokens[i].kind # "KEYWORD"
        /\ eqs # {}
        /\ first # 2 \/ t.tokens[1].kind # "IDENT"

\* C9: such a line fails with SNOLInvalidVariableError, reported as
\* "Unknown word [...]".
C9_InvalidVariableName ==
    BadAssignTarget(line) =>
        /\ exc.cls = "SNOLInvalidVariableError"
        /\ out[Len(out)][2] = "Unknown word ["

\* every operand of the expression is an integer literal or a variable
\* holding an int
IntegerOperands(store, expr) ==
    \A i \in 1..Len(Split(expr)) :
        LET tok == Split(expr)[i]
        IN  /\ IsIdentifier(tok) => tok \in DOMAIN store /\ store[tok].t = "int"
            /\ \A k \in 1..Len(tok) : tok[k] # "."

\* C10: every stored value is an int or a float, and an Assign over integer
\* operands stores an int.
C10_NoWidening ==
    [][/\ \A k \in DOMAIN variable_store' : variable_store'[k].t \in {"int", "float"}
       /\ (/\ cmd'.kind = "Assign"
           /\ exc'.cls = "none"
           /\ IntegerOperands(variable_store, cmd'.expr))
          => variable_store'[cmd'.var].t = "int"]_vars

=============================================================================
